---------------------------- MODULE Spec2Model ----------------------------
(***************************************************************************)
(* Schema flattening, query-type derivation, populate-field selection,     *)
(* key picking / schema combination and the CRUD router factory of         *)
(* tsgo-stall.                                                             *)
(*                                                                         *)
(* The utilities of crud-zod-type-utils are TypeScript conditional types:  *)
(* pure functions from types to types.  A Zod schema type is modelled as a *)
(* record tagged with its kind, an object type {k: T} as the set of its    *)
(* [key, type] entries (so that an intersection of object types is the     *)
(* union of the entry sets), and every conditional type as an operator     *)
(* that evaluates the way the type checker evaluates it.                   *)
(***************************************************************************)
EXTENDS Integers, Sequences, FiniteSets, TLC

VARIABLES pc, entity, depth, flat, nestedKeys, populateFields,
          pickKeys, pickOptional, picked, filterQuery, combined,
          zodType, queryType, filterSchema, input, parsed,
          params, router

vars == <<pc, entity, depth, flat, nestedKeys, populateFields,
          pickKeys, pickOptional, picked, filterQuery, combined,
          zodType, queryType, filterSchema, input, parsed,
          params, router>>

-----------------------------------------------------------------------------
(* Bounds of the schema universe.                                          *)

\* Deepest chain of nested objects below a top-level field.
MaxNest == 3

\* Most Optional/Nullable wrappers stacked on one field.
MaxWrap == 2

-----------------------------------------------------------------------------
(* Zod schema types.                                                       *)

ZodString == [kind |-> "String"]
ZodNumber == [kind |-> "Number"]
ZodBoolean == [kind |-> "Boolean"]
ZodDate == [kind |-> "Date"]
ZodEnum == [kind |-> "Enum"]
ZodNever == [kind |-> "Never"]
\* ZodTypeAny, the type recorded by the depth guard of the object flattener.
ZodTypeAny == [kind |-> "Any"]
\* A schema whose inferred output is a luxon DateTime (z.custom<DateTime>()).
ZodDateTime == [kind |-> "DateTime"]
\* No schema: the value of a result that has not been computed.
NoType == [kind |-> "None"]

ZodOptional(T) == [kind |-> "Optional", inner |-> T]
ZodNullable(T) == [kind |-> "Nullable", inner |-> T]
ZodArray(T) == [kind |-> "Array", element |-> T]
ZodUnion(Options) == [kind |-> "Union", options |-> Options]
ZodObject(Shape, Config) == [kind |-> "Object", shape |-> Shape, config |-> Config]
\* z.object(shape): unrecognised keys are stripped.
ZObject(Shape) == ZodObject(Shape, "strip")
\* The type A & B & ... of one key that several flattened entries share.
ZodIntersection(Parts) == [kind |-> "Intersection", parts |-> Parts]

IsObject(T) == T.kind = "Object"

\* UnwrapZodType<T>
RECURSIVE UnwrapZodType(_)
UnwrapZodType(T) ==
    IF T.kind = "Optional" THEN UnwrapZodType(T.inner)
    ELSE IF T.kind = "Nullable" THEN UnwrapZodType(T.inner)
    ELSE T

\* z.infer<T>, as the set of the members of the inferred union type.
RECURSIVE Infer(_)
Infer(T) ==
    CASE T.kind = "String" -> {"string"}
      [] T.kind = "Number" -> {"number"}
      [] T.kind = "Boolean" -> {"boolean"}
      [] T.kind = "Date" -> {"Date"}
      [] T.kind = "DateTime" -> {"DateTime"}
      [] T.kind = "Enum" -> {"enum"}
      [] T.kind = "Never" -> {}
      [] T.kind = "Object" -> {"object"}
      [] T.kind = "Array" -> {"array"}
      [] T.kind = "Optional" -> Infer(T.inner) \cup {"undefined"}
      [] T.kind = "Nullable" -> Infer(T.inner) \cup {"null"}
      [] T.kind = "Union" ->
            UNION {Infer(T.options[i]) : i \in DOMAIN T.options}
      [] OTHER -> {"unknown"}

-----------------------------------------------------------------------------
(* The relational-operator schemas.                                        *)

LHSDateSchema ==
    ZObject([in |-> ZodOptional(ZodArray(ZodDate)),
             notIn |-> ZodOptional(ZodArray(ZodDate)),
             gt |-> ZodOptional(ZodDate),
             gte |-> ZodOptional(ZodDate),
             lt |-> ZodOptional(ZodDate),
             lte |-> ZodOptional(ZodDate)])

LHSStringSchema ==
    ZObject([in |-> ZodOptional(ZodArray(ZodString)),
             notIn |-> ZodOptional(ZodArray(ZodString)),
             contains |-> ZodOptional(ZodString),
             startsWith |-> ZodOptional(ZodString),
             endsWith |-> ZodOptional(ZodString)])

LHSNumberSchema ==
    ZObject([in |-> ZodOptional(ZodArray(ZodNumber)),
             notIn |-> ZodOptional(ZodArray(ZodNumber)),
             gt |-> ZodOptional(ZodNumber),
             gte |-> ZodOptional(ZodNumber),
             lt |-> ZodOptional(ZodNumber),
             lte |-> ZodOptional(ZodNumber)])

-----------------------------------------------------------------------------
(* Query types.                                                            *)

\* QueryTypes<T>.  The first test is on the inferred output type, which is
\* not a naked type parameter, so it is not distributed: a union extends
\* DateTime when every member does, and never extends everything.
QueryTypes(T) ==
    IF Infer(T) \subseteq {"DateTime"}
    THEN ZodUnion(<<ZodDate, ZodArray(ZodDate), LHSDateSchema>>)
    ELSE IF T.kind = "String"
    THEN ZodUnion(<<ZodString, ZodArray(ZodString), LHSStringSchema>>)
    ELSE IF T.kind = "Number"
    THEN ZodUnion(<<ZodNumber, ZodArray(ZodNumber), LHSNumberSchema>>)
    ELSE IF T.kind = "Boolean"
    THEN T
    ELSE ZodUnion(<<T, ZodArray(T)>>)

\* getFilterSchema(type)
getFilterSchema(type) ==
    IF type.kind = "String"
    THEN ZodUnion(<<type, ZodArray(type), LHSStringSchema>>)
    ELSE IF type.kind = "Number"
    THEN ZodUnion(<<type, ZodArray(type), LHSNumberSchema>>)
    ELSE IF type.kind = "Date"
    THEN ZodUnion(<<type, ZodArray(type), LHSDateSchema>>)
    ELSE ZodUnion(<<type, ZodArray(type)>>)

-----------------------------------------------------------------------------
(* The flattener.  A depth is a numeric type: the literal types "0" and    *)
(* "1", or "number".                                                       *)

\* An Increment that counts: 0 becomes 1.
IncrementCounting(N) == IF N = "0" THEN "1" ELSE "number"

\* Increment<N> = [...Array<N>, 0]["length"].  Array<N> is the array type
\* N[], not a tuple of N elements, so the tuple [...N[], 0] has a rest
\* element and its length is the type number, whatever N is.
Increment(N) == "number"

\* Depth extends 1
DepthExtends1(Depth) == Depth = "1"

\* { [K in Path]: T }
Entry(Path, T) == [key |-> Path, type |-> T]

\* A test that one option is an object, not every option.
SomeObject(Options) == \E i \in DOMAIN Options : IsObject(Options[i])

\* Options[number] extends ZodObject<any>: the union of the options is
\* assignable to ZodObject when every option is.
AllObjects(Options) == \A i \in DOMAIN Options : IsObject(Options[i])

RECURSIVE FlattenZodObjectWithTypes(_, _, _)
RECURSIVE FlattenZodFieldWithTypes(_, _, _)
RECURSIVE FlattenUnionObjects(_, _, _)

\* An object flattener that passes the field name down, not the path.
FlattenObjectDropsPath(T, Path, Depth) ==
    IF DepthExtends1(Depth)
    THEN {Entry(Path, ZodTypeAny)}
    ELSE IF IsObject(T)
    THEN UNION {FlattenZodFieldWithTypes(T.shape[K], K, Increment(Depth))
                    : K \in DOMAIN T.shape}
    ELSE {}

\* FlattenZodObjectWithTypes<T, Path, Depth>.  UnionToIntersection of the
\* per-key object types is the union of their entries.  T is constrained
\* to ZodObject, so the last branch (never) is not reached.
FlattenZodObjectWithTypes(T, Path, Depth) ==
    IF DepthExtends1(Depth)
    THEN {Entry(Path, ZodTypeAny)}
    ELSE IF IsObject(T)
    THEN UNION {FlattenZodFieldWithTypes(T.shape[K], Path \o K, Increment(Depth))
                    : K \in DOMAIN T.shape}
    ELSE {}

\* A field flattener that does not unwrap Nullable.
FlattenFieldKeepsNullable(T, Path, Depth) ==
    IF DepthExtends1(Depth)
    THEN {Entry(Path, QueryTypes(T))}
    ELSE IF T.kind = "Optional"
    THEN FlattenZodFieldWithTypes(T.inner, Path, Depth)
    ELSE IF IsObject(T)
    THEN FlattenZodObjectWithTypes(T, Path \o "_", Depth)
    ELSE IF T.kind = "Union"
    THEN IF AllObjects(T.options)
         THEN UNION {FlattenUnionObjects(T.options[i], Path \o "_", Increment(Depth))
                         : i \in DOMAIN T.options}
         ELSE {Entry(Path, QueryTypes(T))}
    ELSE {Entry(Path, QueryTypes(T))}

\* FlattenZodFieldWithTypes<T, Path, Depth>
FlattenZodFieldWithTypes(T, Path, Depth) ==
    IF DepthExtends1(Depth)
    THEN {Entry(Path, QueryTypes(T))}
    ELSE IF T.kind = "Optional"
    THEN FlattenZodFieldWithTypes(T.inner, Path, Depth)
    ELSE IF T.kind = "Nullable"
    THEN FlattenZodFieldWithTypes(T.inner, Path, Depth)
    ELSE IF IsObject(T)
    THEN FlattenZodObjectWithTypes(T, Path \o "_", Depth)
    ELSE IF T.kind = "Union"
    THEN IF AllObjects(T.options)
         THEN UNION {FlattenUnionObjects(T.options[i], Path \o "_", Increment(Depth))
                         : i \in DOMAIN T.options}
         ELSE {Entry(Path, QueryTypes(T))}
    ELSE {Entry(Path, QueryTypes(T))}

\* FlattenUnionObjects<T, Path, Depth>, distributed over the members of T
\* by its caller.
FlattenUnionObjects(T, Path, Depth) ==
    IF IsObject(T)
    THEN FlattenZodObjectWithTypes(T, Path, Depth)
    ELSE {Entry(Path, T)}

\* MergeFlattened<T>: the flattened type is one object type already.
MergeFlattened(T) == FlattenZodObjectWithTypes(T, "", "0")

Keys(Flat) == {e.key : e \in Flat}

\* The type of key K in an intersection of object types.
TypeAt(Flat, K) ==
    LET parts == {e.type : e \in {x \in Flat : x.key = K}}
    IN IF Cardinality(parts) = 1
       THEN CHOOSE t \in parts : TRUE
       ELSE ZodIntersection(parts)

\* ZodShape<T>: every property of the flattened type is a ZodType and is
\* kept as it is.
ZodShape(Flat) == [K \in Keys(Flat) |-> TypeAt(Flat, K)]

\* NestedZodKeysWithTypes<T>
NestedZodKeysWithTypes(T) == ZodObject(ZodShape(MergeFlattened(T)), T.config)

-----------------------------------------------------------------------------
(* Populate fields.                                                        *)

\* S1 is a subtype of S2: it has every property of S2, with the same type.
ShapeSubtype(S1, S2) ==
    \A k \in DOMAIN S2 : k \in DOMAIN S1 /\ S1[k] = S2[k]

\* The type inferred for SUnion in
\* U[number] extends ZodObject<infer SUnion>: the union of the members'
\* shapes, reduced by subtype (a shape that is a subtype of another
\* member's shape is absorbed by it).
InferredShapes(Options) ==
    LET shapes == {Options[i].shape : i \in DOMAIN Options}
    IN {S \in shapes : \A S2 \in shapes : S2 # S => ~ShapeSubtype(S, S2)}

\* S extends { id: ZodType }
HasId(S) == "id" \in DOMAIN S

\* QueryPopulateFieldFilter<T>[K] is K (TRUE) or never (FALSE).  SUnion is
\* an inferred type parameter checked naked, so the inner conditional is
\* distributed over the members of the inferred union: the result is K as
\* soon as one of them has an id.
QueryPopulateFieldFilter(T, K) ==
    LET U == UnwrapZodType(T.shape[K])
    IN IF IsObject(U)
       THEN HasId(U.shape)
       ELSE IF U.kind = "Union"
       THEN IF AllObjects(U.options)
            THEN \E S \in InferredShapes(U.options) : HasId(S)
            ELSE FALSE
       ELSE FALSE

\* keyof NonNeverKeys<QueryPopulateFieldFilter<T>>, the literals of
\* QueryPopulateFields<T>.
QueryPopulateFields(T) ==
    {K \in DOMAIN T.shape : QueryPopulateFieldFilter(T, K)}

-----------------------------------------------------------------------------
(* Key picking and schema combination.                                     *)

\* PickZodObjectKeys<T, K, Optional>
PickZodObjectKeys(T, K, Optional) ==
    ZodObject([P \in K \cap DOMAIN T.shape |->
                    IF Optional THEN ZodOptional(T.shape[P]) ELSE T.shape[P]],
              T.config)

\* An Extend in which A's property wins on a common key.
ExtendLeftWins(A, B) ==
    [k \in DOMAIN A \cup DOMAIN B |-> IF k \in DOMAIN A THEN A[k] ELSE B[k]]

\* util.Extend<A, B>: the properties of A that B does not have, and B's.
Extend(A, B) ==
    [k \in DOMAIN A \cup DOMAIN B |-> IF k \in DOMAIN B THEN B[k] ELSE A[k]]

\* CombineZodObjects<A, B>
CombineZodObjects(A, B) == ZodObject(Extend(A.shape, B.shape), B.config)

-----------------------------------------------------------------------------
(* The schemas the operations are applied to.                              *)

\* The test object of crud-zod-type-utils.
obj ==
    ZObject([foo |-> ZodString,
             bar |-> ZObject([baz |-> ZodNumber]),
             zoo |-> ZodOptional(ZodString),
             cas |-> ZodNullable(ZodNumber),
             qux |-> ZodUnion(<<ZodString, ZodNumber>>)])

\* The schema of the documentation of FlattenZodObjectWithTypes.
schema == ZObject([a |-> ZodString, b |-> ZObject([c |-> ZodNumber])])

\* The entity and the filter query of the documentation of getFilterSchema.
entitySchema == ZObject([name |-> ZodString, age |-> ZodNumber])
zFilterQuery == ZObject([location |-> ZodString])

\* Entities with and without a sub-entity that has an id.
postSchema ==
    ZObject([author |-> ZObject([id |-> ZodString, name |-> ZodString]),
             title |-> ZodString])
titleSchema == ZodObject([title |-> ZodString], "strict")

ExampleSchemas == {obj, schema, entitySchema, postSchema, titleSchema}

LeafTypes ==
    {ZodString, ZodNumber, ZodBoolean, ZodDate, ZodDateTime, ZodEnum, ZodNever,
     ZodArray(ZodString)}

InnerNames == {"b", "id"}
InnerLeaves == {ZodString, ZodNumber}

\* The objects of leaves over the inner names, the empty object included.
LeafObjects ==
    {ZObject(f) : f \in UNION {[S -> InnerLeaves] : S \in SUBSET InnerNames}}

\* Chains of objects, d deep, whose links may be optional.
RECURSIVE NestedObjects(_)
NestedObjects(d) ==
    IF d <= 1
    THEN LeafObjects
    ELSE {ZObject([b |-> o]) : o \in NestedObjects(d - 1)}
         \cup {ZObject([b |-> ZodOptional(o)]) : o \in NestedObjects(d - 1)}

UnionMembers ==
    {ZodString, ZodDateTime,
     ZObject([id |-> ZodString]),
     ZObject([b |-> ZodNumber]),
     ZObject([id |-> ZodString, b |-> ZodNumber]),
     ZObject([b |-> ZObject([id |-> ZodString])])}

Unions == {ZodUnion(<<x, y>>) : x \in UnionMembers, y \in UnionMembers}

\* S, and its members under at most w Optional/Nullable wrappers.
RECURSIVE Wrapped(_, _)
Wrapped(S, w) ==
    IF w = 0
    THEN S
    ELSE S \cup {ZodOptional(T) : T \in Wrapped(S, w - 1)}
           \cup {ZodNullable(T) : T \in Wrapped(S, w - 1)}

FieldTypes ==
    Wrapped(LeafTypes \cup UNION {NestedObjects(d) : d \in 1..MaxNest} \cup Unions,
            MaxWrap)

\* A top-level field a of any type, alone or beside a leaf field named
\* a_b, the key the nested path a -> b is flattened to.
Entities ==
    ExampleSchemas
    \cup {ZObject([a |-> T]) : T \in FieldTypes}
    \cup {ZObject([a |-> T, a_b |-> L]) : T \in FieldTypes, L \in {ZodString, ZodBoolean}}

FilterQueries ==
    {zFilterQuery,
     ZodObject([name |-> ZodNumber, a |-> ZodBoolean], "strict"),
     ZodObject([a_b |-> ZodOptional(ZodDate)], "loose")}

-----------------------------------------------------------------------------
(* The operations on an entity schema.                                     *)

NoResults ==
    /\ depth = "0"
    /\ flat = {}
    /\ nestedKeys = NoType
    /\ populateFields = {}
    /\ pickKeys = {}
    /\ pickOptional = FALSE
    /\ picked = NoType
    /\ filterQuery = NoType
    /\ combined = NoType
    /\ queryType = NoType
    /\ filterSchema = NoType
    /\ input = [t |-> "undefined"]
    /\ parsed = [success |-> FALSE, data |-> [t |-> "undefined"]]
    /\ router = [routes |-> << >>, metadata |-> << >>]

Init ==
    /\ pc = "ready"
    /\ entity \in Entities
    /\ zodType = NoType
    /\ params = [name |-> ""]
    /\ NoResults

\* FlattenZodObjectWithTypes<typeof entity, "", Depth>
Flatten ==
    /\ pc = "ready"
    /\ \E Depth \in {"0", "1"} :
         /\ depth' = Depth
         /\ flat' = FlattenZodObjectWithTypes(entity, "", Depth)
    /\ pc' = "flattened"
    /\ UNCHANGED <<entity, nestedKeys, populateFields, pickKeys, pickOptional,
                   picked, filterQuery, combined, zodType, queryType,
                   filterSchema, input, parsed, params, router>>

\* NestedZodKeysWithTypes<typeof entity>
NestedKeys ==
    /\ pc = "ready"
    /\ nestedKeys' = NestedZodKeysWithTypes(entity)
    /\ pc' = "nested"
    /\ UNCHANGED <<entity, depth, flat, populateFields, pickKeys, pickOptional,
                   picked, filterQuery, combined, zodType, queryType,
                   filterSchema, input, parsed, params, router>>

\* QueryPopulateFields<typeof entity>
Populate ==
    /\ pc = "ready"
    /\ populateFields' = QueryPopulateFields(entity)
    /\ pc' = "populated"
    /\ UNCHANGED <<entity, depth, flat, nestedKeys, pickKeys, pickOptional,
                   picked, filterQuery, combined, zodType, queryType,
                   filterSchema, input, parsed, params, router>>

\* PickZodObjectKeys<typeof entity, K, Optional>
Pick ==
    /\ pc = "ready"
    /\ \E K \in SUBSET DOMAIN entity.shape, Optional \in BOOLEAN :
         /\ pickKeys' = K
         /\ pickOptional' = Optional
         /\ picked' = PickZodObjectKeys(entity, K, Optional)
    /\ pc' = "picked"
    /\ UNCHANGED <<entity, depth, flat, nestedKeys, populateFields,
                   filterQuery, combined, zodType, queryType,
                   filterSchema, input, parsed, params, router>>

\* CombineZodObjects<PickZodObjectKeys<typeof entity, K>, typeof B>
Combine ==
    /\ pc = "ready"
    /\ \E K \in SUBSET DOMAIN entity.shape, B \in FilterQueries :
         /\ pickKeys' = K
         /\ picked' = PickZodObjectKeys(entity, K, FALSE)
         /\ filterQuery' = B
         /\ combined' = CombineZodObjects(PickZodObjectKeys(entity, K, FALSE), B)
    /\ pc' = "combined"
    /\ UNCHANGED <<entity, depth, flat, nestedKeys, populateFields,
                   pickOptional, zodType, queryType,
                   filterSchema, input, parsed, params, router>>

Next == Flatten \/ NestedKeys \/ Populate \/ Pick \/ Combine

Spec == Init /\ [][Next]_vars

-----------------------------------------------------------------------------
(* The leaves of a schema tree, read off the tree itself.                  *)

\* A field's schema, unwrapped, is a container when it is an object or a
\* union of objects only; otherwise it is a leaf.
EveryMemberIsObject(U) == \A i \in DOMAIN U.options : U.options[i].kind = "Object"

IsContainer(U) ==
    \/ U.kind = "Object"
    \/ U.kind = "Union" /\ EveryMemberIsObject(U)

\* The paths from an object to its leaves: the field names on the way, the
\* union members chosen on the way, and the leaf reached.  The members of a
\* union are the members of the union type Options[number]: a member given
\* twice is one member.
RECURSIVE ObjectLeafPaths(_)
RECURSIVE FieldLeafPaths(_)
ObjectLeafPaths(T) ==
    UNION {{[names |-> <<K>> \o p.names, opts |-> p.opts, leaf |-> p.leaf]
                : p \in FieldLeafPaths(UnwrapZodType(T.shape[K]))}
               : K \in DOMAIN T.shape}

FieldLeafPaths(U) ==
    IF U.kind = "Object"
    THEN ObjectLeafPaths(U)
    ELSE IF IsContainer(U)
    THEN UNION {{[names |-> p.names, opts |-> <<U.options[i]>> \o p.opts, leaf |-> p.leaf]
                    : p \in ObjectLeafPaths(U.options[i])}
                   : i \in DOMAIN U.options}
    ELSE {[names |-> << >>, opts |-> << >>, leaf |-> U]}

\* The names of a path joined with underscores.
RECURSIVE JoinNames(_)
JoinNames(names) ==
    IF Len(names) = 0 THEN ""
    ELSE IF Len(names) = 1 THEN names[1]
    ELSE names[1] \o "_" \o JoinNames(Tail(names))

\* The leaf paths of T that are flattened to key k.
PathsOfKey(T, k) == {p \in ObjectLeafPaths(T) : JoinNames(p.names) = k}

\* No two leaf paths of T are flattened to the same key.
CollisionFree(T) ==
    \A p \in ObjectLeafPaths(T), q \in ObjectLeafPaths(T) :
        JoinNames(p.names) = JoinNames(q.names) => p = q

StringQueryType == ZodUnion(<<ZodString, ZodArray(ZodString), LHSStringSchema>>)
NumberQueryType == ZodUnion(<<ZodNumber, ZodArray(ZodNumber), LHSNumberSchema>>)
DateQueryType == ZodUnion(<<ZodDate, ZodArray(ZodDate), LHSDateSchema>>)

\* The query type of the dispatch table for a leaf.
TableQueryType(L) ==
    CASE L.kind = "String" -> StringQueryType
      [] L.kind = "Number" -> NumberQueryType
      [] L.kind = "Date" -> DateQueryType
      [] L.kind = "Boolean" -> ZodBoolean
      [] OTHER -> ZodUnion(<<L, ZodArray(L)>>)

Flattened == pc = "flattened" /\ depth = "0"

-----------------------------------------------------------------------------
(* Claims about flattening.                                                *)

RECURSIVE StripWrappers(_)
StripWrappers(T) ==
    IF T.kind = "Object"
    THEN ZodObject([K \in DOMAIN T.shape |-> StripWrappers(UnwrapZodType(T.shape[K]))],
                   T.config)
    ELSE T

\* C7: Optional and Nullable wrappers are transparent: the flattened map of
\* a schema is that of the schema with the wrappers of its fields removed
\* (same keys, same query types, no path segment for a wrapper).
C7_WrappersTransparent ==
    /\ pc = "flattened" =>
          flat = FlattenZodObjectWithTypes(StripWrappers(entity), "", depth)
    /\ Flattened =>
          \A k \in DOMAIN entity.shape :
              LET l == UnwrapZodType(entity.shape[k])
              IN ~IsContainer(l) => Entry(k, QueryTypes(l)) \in flat

C7_Witness ==
    /\ Flattened
    /\ \E k \in DOMAIN entity.shape :
          /\ entity.shape[k].kind = "Nullable"
          /\ UnwrapZodType(entity.shape[k]).kind = "Object"
          /\ k \notin Keys(flat)
          /\ flat # {}

\* The entries of the flattened map under the top-level field k: those
\* whose key is the joined path of a leaf at or below k.
OwnEntries(k) ==
    {e \in flat : \E p \in PathsOfKey(entity, e.key) : p.names[1] = k}

\* C8 (as claimed): a union of objects only contributes the key k_f for
\* every field f of every member and not the key k; any other union is one
\* leaf under the key k with the query type {union, array of union}.
C8_UnionKeysPerMemberField ==
    Flattened =>
        \A k \in DOMAIN entity.shape :
            LET U == UnwrapZodType(entity.shape[k])
            IN U.kind = "Union" =>
                  IF EveryMemberIsObject(U)
                  THEN /\ k \notin Keys(flat)
                       /\ \A i \in DOMAIN U.options :
                             \A f \in DOMAIN U.options[i].shape :
                                 (k \o "_" \o f) \in Keys(flat)
                  ELSE OwnEntries(k) = {Entry(k, ZodUnion(<<U, ZodArray(U)>>))}

\* C8 (amended): a union of objects only contributes, for every member, the
\* member's flattened keys under the prefix k_ (k_f for a leaf field f, the
\* keys below k_f_ for a field f that is itself an object) and not the key
\* k; any other union is one leaf under the key k, with the query type
\* {union, array of union} unless the union's inferred output is a luxon
\* DateTime, and then with the Date query type.
C8_UnionKeysPerMemberLeaf ==
    Flattened =>
        \A k \in DOMAIN entity.shape :
            LET U == UnwrapZodType(entity.shape[k])
            IN U.kind = "Union" =>
                  IF EveryMemberIsObject(U)
                  THEN /\ k \notin Keys(flat)
                       /\ \A i \in DOMAIN U.options :
                             \A p \in ObjectLeafPaths(U.options[i]) :
                                 Entry(k \o "_" \o JoinNames(p.names), QueryTypes(p.leaf))
                                     \in flat
                  ELSE OwnEntries(k) =
                          {Entry(k, IF Infer(U) \subseteq {"DateTime"}
                                    THEN DateQueryType
                                    ELSE ZodUnion(<<U, ZodArray(U)>>))}

C8_Witness ==
    /\ Flattened
    /\ \E k \in DOMAIN entity.shape :
          LET U == UnwrapZodType(entity.shape[k])
          IN /\ U.kind = "Union"
             /\ EveryMemberIsObject(U)
             /\ U.options[1] # U.options[2]
             /\ \E p \in ObjectLeafPaths(U.options[1]) : Len(p.names) = 2
             /\ \E p \in ObjectLeafPaths(U.options[2]) : Len(p.names) = 1
             /\ Cardinality(flat) >= 3

\* C9: flattening is bounded by the depth budget: the descent from the
\* root into a field reaches the terminal depth 1, so a nested object is
\* not recursed into but recorded as one leaf at its own path.
C9_NestedObjectsAreLeaves ==
    Flattened =>
        \A k \in DOMAIN entity.shape :
            LET o == UnwrapZodType(entity.shape[k])
            IN (o.kind = "Object" /\ DOMAIN o.shape # {}) => k \in Keys(flat)

-----------------------------------------------------------------------------
(* Claims about populate fields, picking and combining.                    *)

ObjectWithId(U) == U.kind = "Object" /\ "id" \in DOMAIN U.shape

\* C4: the populate fields are exactly the top-level fields whose
\* unwrapped type is an object with an id, or a union whose every member
\* is an object with an id.
C4_PopulateFieldsHaveId ==
    pc = "populated" =>
        populateFields =
            {k \in DOMAIN entity.shape :
                LET U == UnwrapZodType(entity.shape[k])
                IN \/ ObjectWithId(U)
                   \/ /\ U.kind = "Union"
                      /\ \A i \in DOMAIN U.options : ObjectWithId(U.options[i])}

\* C5: pick(A, K) has exactly the fields of A named in K, each Optional
\* iff the flag is set; combine(A, B) has exactly the fields of A and of B,
\* B's field on every common key, and B's config.
C5_PickAndCombine ==
    /\ pc = "picked" =>
          /\ DOMAIN picked.shape = pickKeys
          /\ \A P \in pickKeys :
                picked.shape[P] = IF pickOptional
                                  THEN ZodOptional(entity.shape[P])
                                  ELSE entity.shape[P]
    /\ pc = "combined" =>
          /\ DOMAIN combined.shape = DOMAIN picked.shape \cup DOMAIN filterQuery.shape
          /\ \A k \in DOMAIN filterQuery.shape :
                combined.shape[k] = filterQuery.shape[k]
          /\ \A k \in DOMAIN picked.shape \ DOMAIN filterQuery.shape :
                combined.shape[k] = picked.shape[k]
          /\ combined.config = filterQuery.config
          /\ (entity = entitySchema /\ pickKeys = {"name"} /\ filterQuery = zFilterQuery)
                => DOMAIN combined.shape = {"name", "location"}

C5_Witness ==
    /\ pc = "combined"
    /\ DOMAIN picked.shape \cap DOMAIN filterQuery.shape # {}
    /\ picked.config # filterQuery.config
    /\ \E k \in DOMAIN picked.shape \cap DOMAIN filterQuery.shape :
          picked.shape[k] # filterQuery.shape[k]

-----------------------------------------------------------------------------
(* Deriving and applying the filter schema of one type.                    *)

\* Input values: a primitive of type t, an array with the given elements,
\* an object with the given fields.
Value(t) == [t |-> t]
ArrayValue(elems) == [t |-> "array", elems |-> elems]
ObjectValue(fields) == [t |-> "object", fields |-> fields]
Failure == [success |-> FALSE, data |-> Value("undefined")]
Success(v) == [success |-> TRUE, data |-> v]

\* schema.safeParse(v) of the schemas built here with z.string, z.number,
\* z.date, z.array, z.optional, z.object and z.union.  An object schema
\* parses every field of its shape; keys outside the shape are dropped
\* (strip), kept (loose) or an error (strict).  A union yields the result of
\* its first option that succeeds.
RECURSIVE safeParse(_, _)
safeParse(S, v) ==
    CASE S.kind = "String" -> IF v.t = "string" THEN Success(v) ELSE Failure
      [] S.kind = "Number" -> IF v.t = "number" THEN Success(v) ELSE Failure
      [] S.kind = "Boolean" -> IF v.t = "boolean" THEN Success(v) ELSE Failure
      [] S.kind = "Date" -> IF v.t = "date" THEN Success(v) ELSE Failure
      [] S.kind = "Enum" -> IF v.t = "enum" THEN Success(v) ELSE Failure
      [] S.kind = "Never" -> Failure
      [] S.kind = "Optional" ->
            IF v.t = "undefined" THEN Success(v) ELSE safeParse(S.inner, v)
      [] S.kind = "Nullable" ->
            IF v.t = "null" THEN Success(v) ELSE safeParse(S.inner, v)
      [] S.kind = "Array" ->
            IF v.t = "array" /\ \A e \in v.elems : safeParse(S.element, e).success
            THEN Success(ArrayValue({safeParse(S.element, e).data : e \in v.elems}))
            ELSE Failure
      [] S.kind = "Object" ->
            IF /\ v.t = "object"
               /\ \A k \in DOMAIN S.shape :
                     safeParse(S.shape[k],
                               IF k \in DOMAIN v.fields
                               THEN v.fields[k]
                               ELSE Value("undefined")).success
               /\ S.config = "strict" => DOMAIN v.fields \subseteq DOMAIN S.shape
            THEN Success(ObjectValue(
                    [k \in {x \in DOMAIN v.fields :
                               x \in DOMAIN S.shape \/ S.config = "loose"} |->
                        IF k \in DOMAIN S.shape
                        THEN safeParse(S.shape[k], v.fields[k]).data
                        ELSE v.fields[k]]))
            ELSE Failure
      [] S.kind = "Union" ->
            LET ok == {i \in DOMAIN S.options : safeParse(S.options[i], v).success}
            IN IF ok = {}
               THEN Failure
               ELSE safeParse(S.options[CHOOSE i \in ok : \A j \in ok : i <= j], v)
      [] OTHER -> Success(v)

QueryInputs ==
    LeafTypes \cup {ZObject([id |-> ZodString]), ZodOptional(ZodString),
                    ZodUnion(<<ZodString, ZodNumber>>)}

\* The operators of the relational-operator object of a kind of value.
Operators(t) ==
    IF t = "string"
    THEN {"in", "notIn", "contains", "startsWith", "endsWith"}
    ELSE {"in", "notIn", "gt", "gte", "lt", "lte"}

\* The value an operator takes for a kind; foo is no operator.
Operand(t, k) ==
    IF k \in {"in", "notIn"} THEN ArrayValue({Value(t)})
    ELSE IF k = "foo" THEN Value("boolean")
    ELSE Value(t)

ValueKinds == {"string", "number", "date"}

InputValues ==
    {Value(t) : t \in ValueKinds \cup {"boolean"}}
    \cup {ArrayValue({})}
    \cup {ArrayValue({Value(t)}) : t \in ValueKinds}
    \cup {ArrayValue({Value("string"), Value("number")})}
    \cup UNION {{ObjectValue([k \in K |-> Operand(t, k)])
                    : K \in SUBSET (Operators(t) \cup {"foo"})}
                   : t \in ValueKinds}

InitQuery ==
    /\ pc = "ready"
    /\ entity = schema
    /\ zodType \in QueryInputs
    /\ params = [name |-> ""]
    /\ NoResults

\* QueryTypes<typeof zodType> and getFilterSchema(zodType)
DeriveQuery ==
    /\ pc = "ready"
    /\ queryType' = QueryTypes(zodType)
    /\ filterSchema' = getFilterSchema(zodType)
    /\ pc' = "derived"
    /\ UNCHANGED <<entity, depth, flat, nestedKeys, populateFields, pickKeys,
                   pickOptional, picked, filterQuery, combined, zodType,
                   input, parsed, params, router>>

\* filterSchema.safeParse(v)
SafeParse ==
    /\ pc = "derived"
    /\ \E v \in InputValues :
         /\ input' = v
         /\ parsed' = safeParse(filterSchema, v)
    /\ pc' = "parsed"
    /\ UNCHANGED <<entity, depth, flat, nestedKeys, populateFields, pickKeys,
                   pickOptional, picked, filterQuery, combined, zodType,
                   queryType, filterSchema, params, router>>

NextQuery == DeriveQuery \/ SafeParse

SpecQuery == InitQuery /\ [][NextQuery]_vars

\* The kind of value a leaf schema validates.
ValueKind(T) ==
    CASE T.kind = "String" -> "string"
      [] T.kind = "Number" -> "number"
      [] T.kind = "Date" -> "date"
      [] OTHER -> "none"

\* C2: for every leaf kind both derivations, QueryTypes and
\* getFilterSchema, return the variant of the dispatch table: value, array
\* and relational operators for String, Number and Date (a luxon DateTime
\* is a Date), Boolean unchanged, {leaf, array of leaf} for any other kind.
C2_DispatchTable ==
    (pc \in {"derived", "parsed"} /\ zodType \in LeafTypes) =>
        LET expected == IF zodType.kind = "DateTime"
                        THEN DateQueryType
                        ELSE TableQueryType(zodType)
        IN /\ queryType = expected
           /\ filterSchema = expected

\* C3: the query schema of a String, Number or Date leaf accepts a value
\* of the kind, an array of such values and an object of any subset of the
\* kind's operators, and rejects every object with a key that is no
\* operator of the kind.
C3_OperatorObjectsOnly ==
    (pc = "parsed" /\ ValueKind(zodType) # "none") =>
        LET t == ValueKind(zodType)
        IN /\ input = Value(t) => parsed.success
           /\ (input.t = "array" /\ input.elems \subseteq {Value(t)}) => parsed.success
           /\ input.t = "object" =>
                 IF DOMAIN input.fields \subseteq Operators(t)
                 THEN (\A k \in DOMAIN input.fields : input.fields[k] = Operand(t, k))
                          => parsed.success
                 ELSE ~parsed.success

-----------------------------------------------------------------------------
(* The CRUD router.                                                        *)

\* { ...a, ...b }
Spread(a, b) ==
    [k \in DOMAIN a \cup DOMAIN b |-> IF k \in DOMAIN b THEN b[k] ELSE a[k]]

\* A destructured parameter with its default: the default stands for a
\* parameter that is not passed.
Param(p, k, default) == IF k \in DOMAIN p THEN p[k] ELSE default

\* The contract c.type<z.output<T>>() of the entity.
CTType == "entity"

\* createCrudRouter(p).  The router is what is handed to c.router: the
\* merged routes and the metadata of the options.
createCrudRouter(p) ==
    LET name == p.name
        authentication == Param(p, "authentication", TRUE)
        metadata == Param(p, "metadata", << >>)
        baseRoutes ==
            [get |-> [method |-> "GET",
                      path |-> "/" \o name \o "/:id",
                      summary |-> "Get " \o name \o " by id",
                      responses |-> [ok |-> CTType]]]
        mergedRoutes == Spread(baseRoutes, Param(p, "routes", << >>))
    IN [routes |-> mergedRoutes,
        metadata |-> Spread([authentication |-> authentication], metadata)]

Route(method, path) ==
    [method |-> method, path |-> path, summary |-> "", responses |-> [ok |-> CTType]]

\* What a caller may pass: a name, and optionally routes, the
\* authentication flag and metadata.
OptionalParam(k, present, v) == IF present THEN (k :> v) ELSE << >>

RouterParams ==
    {[name |-> n] @@ r @@ a @@ m :
        n \in {"user", "post"},
        r \in {<< >>} \cup {OptionalParam("routes", TRUE, x) :
                  x \in {<< >>,
                         [list |-> Route("GET", "/list")],
                         [get |-> Route("POST", "/custom")]}},
        a \in {<< >>} \cup {OptionalParam("authentication", TRUE, x) : x \in BOOLEAN},
        m \in {<< >>} \cup {OptionalParam("metadata", TRUE, x) :
                  x \in {<< >>,
                         [role |-> "admin"],
                         [authentication |-> FALSE],
                         [authentication |-> TRUE, role |-> "admin"]}}}

InitRouter ==
    /\ pc = "ready"
    /\ entity \in ExampleSchemas
    /\ zodType = NoType
    /\ params = [name |-> ""]
    /\ NoResults

\* createCrudRouter({name, entity, create, update, routes, authentication,
\* metadata})
CreateCrudRouter ==
    /\ pc = "ready"
    /\ \E p \in RouterParams :
         /\ params' = p
         /\ router' = createCrudRouter(p)
    /\ pc' = "routed"
    /\ UNCHANGED <<entity, depth, flat, nestedKeys, populateFields, pickKeys,
                   pickOptional, picked, filterQuery, combined, zodType,
                   queryType, filterSchema, input, parsed>>

NextRouter == CreateCrudRouter

SpecRouter == InitRouter /\ [][NextRouter]_vars

\* C10: whatever routes and metadata the caller passes, the router has the
\* route get with method GET and path /<name>/:id, and its metadata has
\* authentication = true unless the caller passed authentication = false.
C10_GetRouteAndAuthenticationKept ==
    pc = "routed" =>
        /\ "get" \in DOMAIN router.routes
        /\ router.routes.get.method = "GET"
        /\ router.routes.get.path = "/" \o params.name \o "/:id"
        /\ router.metadata.authentication = Param(params, "authentication", TRUE)

=============================================================================
